---- MODULE Spec2Model ----
(***************************************************************************)
(* PageRank over a small closed link graph (pagerank.py): the transition   *)
(* model of the random surfer, the sampling estimator and the iterative    *)
(* estimator, the last two sharing one corpus dictionary.                  *)
(*                                                                         *)
(* Numbers.  The program computes in IEEE doubles.  The model computes in  *)
(* exact rationals <<numerator, denominator>> kept in lowest terms.  Pages *)
(* are the integers 1..N in the dictionary's insertion order.              *)
(***************************************************************************)
EXTENDS Integers, Sequences, FiniteSets

\* Bounds of the model.
MaxPages == 3
MaxSamples == 2
MaxRounds == 12

VARIABLES
    corpus,                 \* the dictionary crawl() returned, shared by both estimators
    corpus0,                \* its value when crawl() returned
    damping_factor,
    n,                      \* sample_pagerank's n
    pcS,                    \* sample_pagerank: "start" "loop" "done" "raised"
    excS,                   \* the exception sample_pagerank ended in
    page,                   \* sample_pagerank: current page
    samples,                \* sample_pagerank: samples list
    p,                      \* sample_pagerank: last distribution from transition_model
    sample_probabilities,   \* sample_pagerank: the dictionary returned
    pcI,                    \* iterate_pagerank: "fix" "loop" "round" "done" "raised"
    excI,                   \* the exception iterate_pagerank ended in
    fix,                    \* iterate_pagerank: next key of the fixup loop
    links,                  \* iterate_pagerank: links dictionary
    probabilities,          \* iterate_pagerank: probabilities
    updated_probabilities,  \* iterate_pagerank: updated_probabilities
    d,                      \* iterate_pagerank: differences dictionary
    i,                      \* iterate_pagerank: round counter
    cur,                    \* iterate_pagerank: next key of the loop of a round
    iterate_result          \* iterate_pagerank: the dictionary returned

vars == <<corpus, corpus0, damping_factor, n, pcS, excS, page, samples, p,
          sample_probabilities, pcI, excI, fix, links, probabilities,
          updated_probabilities, d, i, cur, iterate_result>>

sampleVars == <<pcS, excS, page, samples, p, sample_probabilities>>
iterateVars == <<pcI, excI, fix, links, probabilities, updated_probabilities,
                 d, i, cur, iterate_result>>

----------------------------------------------------------------------------
\* Rational arithmetic: the program's float operations, computed exactly.
\* Every operation binds its operands once, as bound variables: TLC evaluates
\* an operator's argument again at each use when it computes ENABLED.

RECURSIVE Gcd(_, _)
Gcd(a, b) ==
    IF b = 0 THEN a
    ELSE CHOOSE g \in {Gcd(y, r) : y \in {b}, r \in {a % b}} : TRUE

\* a / b for integers a >= 0, b > 0.
Rat(a, b) ==
    CHOOSE r \in {<<x \div g, y \div g>> : x \in {a}, y \in {b}, g \in {Gcd(a, b)}} : TRUE

Zero == <<0, 1>>

\* The least common multiple of the denominators u, v > 0.
Lcm(u, v) == (u \div Gcd(u, v)) * v

\* x + y
RAdd(x, y) ==
    CHOOSE r \in {LET l == Lcm(u[2], v[2])
                  IN Rat(u[1] * (l \div u[2]) + v[1] * (l \div v[2]), l)
                  : u \in {x}, v \in {y}} : TRUE

\* abs(x - y)
RAbsDiff(x, y) ==
    CHOOSE r \in {LET l == Lcm(u[2], v[2])
                      a == u[1] * (l \div u[2])
                      b == v[1] * (l \div v[2])
                  IN Rat(IF a >= b THEN a - b ELSE b - a, l)
                  : u \in {x}, v \in {y}} : TRUE

\* x / k for an integer k > 0.
RDivInt(x, k) ==
    CHOOSE r \in {LET g == Gcd(u[1], m)
                  IN Rat(u[1] \div g, u[2] * (m \div g))
                  : u \in {x}, m \in {k}} : TRUE

\* x * y
RMul(x, y) ==
    CHOOSE r \in {LET g1 == Gcd(u[1], v[2])
                      g2 == Gcd(v[1], u[2])
                  IN Rat((u[1] \div g1) * (v[1] \div g2), (u[2] \div g2) * (v[2] \div g1))
                  : u \in {x}, v \in {y}} : TRUE

\* 1 - x for 0 <= x <= 1.
ROneMinus(x) == Rat(x[2] - x[1], x[2])

\* x < y for non-negative rationals, by continued fractions (no products).
RECURSIVE RLt(_, _)
RLt(x, y) ==
    \E u \in {x}, v \in {y} :
        LET qx == u[1] \div u[2]
            qy == v[1] \div v[2]
            rx == u[1] % u[2]
            ry == v[1] % v[2]
        IN IF qx # qy THEN qx < qy
           ELSE IF ry = 0 THEN FALSE
           ELSE IF rx = 0 THEN TRUE
           ELSE RLt(<<v[2], ry>>, <<u[2], rx>>)

----------------------------------------------------------------------------
\* The inputs.

\* The damping factors sample_pagerank is run with: 1/2 and DAMPING = 0.85.
Dampings == {<<1, 2>>, <<17, 20>>}

\* The damping factors iterate_pagerank is run with: its rank vectors stay
\* within TLC's integers for these.
IterateDampings == {<<1, 4>>, <<1, 2>>}

\* What crawl() returns: every link is a key and no page links to itself.
Graphs(N) == {g \in [1..N -> SUBSET (1..N)] : \A q \in 1..N : q \notin g[q]}

\* len(corpus)
Len_corpus == Cardinality(DOMAIN corpus)

----------------------------------------------------------------------------
\* transition_model

\* Variant: the teleport step ranges over the whole corpus, as in textbook
\* PageRank.
transition_model_whole_corpus(c, pg, df) ==
    LET transitions == c[pg]
        k == Cardinality(transitions)
    IN IF k = 0
       THEN [q \in DOMAIN c |-> Rat(1, Cardinality(DOMAIN c))]
       ELSE LET p_corpus == RDivInt(ROneMinus(df), Cardinality(DOMAIN c))
                p_page == RAdd(RDivInt(df, k), p_corpus)
            IN [q \in DOMAIN c |->
                    IF q \in transitions THEN p_page ELSE p_corpus]

\* Variant: the teleport step divides by len(transitions), leaving out the
\* page itself.
transition_model_without_self(c, pg, df) ==
    LET transitions == c[pg]
        k == Cardinality(transitions)
    IN IF k = 0
       THEN [q \in DOMAIN c |-> Rat(1, Cardinality(DOMAIN c))]
       ELSE LET p_corpus == RDivInt(ROneMinus(df), k)
                p_page == RAdd(RDivInt(df, k), p_corpus)
            IN [q \in transitions \cup {pg} |->
                    IF q \in transitions THEN p_page ELSE p_corpus]

transition_model(c, pg, df) ==
    LET transitions == c[pg]
        k == Cardinality(transitions)
    IN IF k = 0
       THEN [q \in DOMAIN c |-> Rat(1, Cardinality(DOMAIN c))]
       ELSE LET p_corpus == RDivInt(ROneMinus(df), k + 1)
                p_page == RAdd(RDivInt(df, k), p_corpus)
            IN [q \in transitions \cup {pg} |->
                    IF q \in transitions THEN p_page ELSE p_corpus]

----------------------------------------------------------------------------
\* sample_pagerank

\* Variant: for i in range(n)
sample_loop_count_n(m) == m

\* for i in range(n-1)
sample_loop_count(m) == m - 1

RECURSIVE count(_, _)
count(s, x) ==
    IF s = <<>> THEN 0
    ELSE (IF Head(s) = x THEN 1 ELSE 0) + count(Tail(s), x)

SampleStart ==
    /\ pcS = "start"
    /\ Len_corpus > 0
    /\ \E pg \in DOMAIN corpus :
          /\ page' = pg
          /\ samples' = <<pg>>
    /\ pcS' = "loop"
    /\ UNCHANGED <<corpus, corpus0, damping_factor, n, excS, p,
                   sample_probabilities, iterateVars>>

\* random.choice of an empty list
SampleStartEmpty ==
    /\ pcS = "start"
    /\ Len_corpus = 0
    /\ pcS' = "raised"
    /\ excS' = "IndexError"
    /\ UNCHANGED <<corpus, corpus0, damping_factor, n, page, samples, p,
                   sample_probabilities, iterateVars>>

SampleStep ==
    /\ pcS = "loop"
    /\ Len(samples) - 1 < sample_loop_count(n)
    /\ p' = transition_model(corpus, page, damping_factor)
    /\ \E q \in DOMAIN p' :
          /\ p'[q][1] > 0
          /\ page' = q
          /\ samples' = Append(samples, q)
    /\ UNCHANGED <<corpus, corpus0, damping_factor, n, pcS, excS,
                   sample_probabilities, iterateVars>>

SampleCount ==
    /\ pcS = "loop"
    /\ Len(samples) - 1 >= sample_loop_count(n)
    /\ sample_probabilities' =
          [q \in DOMAIN corpus |-> Rat(count(samples, q), n)]
    /\ pcS' = "done"
    /\ UNCHANGED <<corpus, corpus0, damping_factor, n, excS, page, samples, p,
                   iterateVars>>

NextSample == SampleStart \/ SampleStartEmpty \/ SampleStep \/ SampleCount

----------------------------------------------------------------------------
\* iterate_pagerank

\* 0.001
Tolerance == <<1, 1000>>

\* Variant: no fixup, a page without links keeps none.
fix_links_none(c, q) == c[q]

\* if corpus[p] == set(): corpus[p] = set(pages)
fix_links(c, q) == IF c[q] = {} THEN DOMAIN c ELSE c[q]

\* links[page]: the keys p with page in corpus[p], in key order
build_links(c) ==
    [pg \in DOMAIN c |->
        SelectSeq([j \in 1..Cardinality(DOMAIN c) |-> j], LAMBDA q : pg \in c[q])]

\* {k: abs(probabilities[k] - updated_probabilities[k]) for k in probabilities if k in updated_probabilities}
differences(prob, upd) ==
    [q \in DOMAIN prob \cap DOMAIN upd |-> RAbsDiff(prob[q], upd[q])]

\* max(d.values()) > 0.001
exceeds_tolerance(dd) == \E q \in DOMAIN dd : RLt(Tolerance, dd[q])

\* Variant: a round reads the dictionary it writes (an update in place).
read_buffer_in_place(ii, prob, upd) == IF ii % 2 = 0 THEN upd ELSE prob

\* the dictionary a round reads: probabilities when i is even, else updated_probabilities
read_buffer(ii, prob, upd) == IF ii % 2 = 0 THEN prob ELSE upd

\* p_link after the first m entries of links[p]:
\* for lp in links[p]: p_link += buffer[lp] / len(corpus[lp])
RECURSIVE p_link(_, _, _, _)
p_link(lst, m, buf, c) ==
    IF m = 0 THEN Zero
    ELSE RAdd(p_link(lst, m - 1, buf, c),
              RDivInt(buf[lst[m]], Cardinality(c[lst[m]])))

\* p_corpus = (1 - damping_factor) / len(corpus)
iterate_p_corpus(c, df) == RDivInt(ROneMinus(df), Cardinality(DOMAIN c))

\* pr = p_corpus + (damping_factor * p_link) for the page with key j
page_rank(j, prob, upd, ii, c, lk, df) ==
    RAdd(iterate_p_corpus(c, df),
         RMul(df, p_link(lk[j], Len(lk[j]), read_buffer(ii, prob, upd), c)))

\* Variant: the round counter is not increased.
next_round_same(ii) == ii

\* i += 1
next_round(ii) == ii + 1

\* One step of the fixup loop "for p in corpus.keys()".
IterateFix ==
    /\ pcI = "fix"
    /\ fix <= Len_corpus
    /\ corpus' = [corpus EXCEPT ![fix] = fix_links(corpus, fix)]
    /\ fix' = fix + 1
    /\ UNCHANGED <<corpus0, damping_factor, n, sampleVars, pcI, excI, links,
                   probabilities, updated_probabilities, d, i, cur,
                   iterate_result>>

\* links, the two dictionaries, d, i and p_corpus.
IterateSetup ==
    /\ pcI = "fix"
    /\ fix > Len_corpus
    /\ Len_corpus > 0
    /\ links' = build_links(corpus)
    /\ probabilities' = [q \in DOMAIN corpus |-> Rat(1, Len_corpus)]
    /\ updated_probabilities' = [q \in DOMAIN corpus |-> Zero]
    /\ d' = differences(probabilities', updated_probabilities')
    /\ i' = 0
    /\ pcI' = "loop"
    /\ UNCHANGED <<corpus, corpus0, damping_factor, n, sampleVars, excI, fix,
                   cur, iterate_result>>

\* With no page, p_corpus = (1 - damping_factor) / len(corpus) divides by zero.
IterateSetupEmpty ==
    /\ pcI = "fix"
    /\ fix > Len_corpus
    /\ Len_corpus = 0
    /\ pcI' = "raised"
    /\ excI' = "ZeroDivisionError"
    /\ UNCHANGED <<corpus, corpus0, damping_factor, n, sampleVars, fix, links,
                   probabilities, updated_probabilities, d, i, cur,
                   iterate_result>>

\* while max(d.values()) > 0.001: a round starts.
IterateWhile ==
    /\ pcI = "loop"
    /\ exceeds_tolerance(d)
    /\ i < MaxRounds
    /\ pcI' = "round"
    /\ cur' = 1
    /\ UNCHANGED <<corpus, corpus0, damping_factor, n, sampleVars, excI, fix,
                   links, probabilities, updated_probabilities, d, i,
                   iterate_result>>

\* One step of "for p in corpus.keys()" in a round: pr is computed and stored
\* in updated_probabilities when i is even, in probabilities when i is odd.
IteratePage ==
    /\ pcI = "round"
    /\ cur <= Len_corpus
    /\ \E pr \in {page_rank(cur, probabilities, updated_probabilities, i,
                            corpus, links, damping_factor)} :
          IF i % 2 = 0
          THEN /\ updated_probabilities' = [updated_probabilities EXCEPT ![cur] = pr]
               /\ UNCHANGED probabilities
          ELSE /\ probabilities' = [probabilities EXCEPT ![cur] = pr]
               /\ UNCHANGED updated_probabilities
    /\ cur' = cur + 1
    /\ UNCHANGED <<corpus, corpus0, damping_factor, n, sampleVars, pcI, excI,
                   fix, links, d, i, iterate_result>>

\* The end of a round: i += 1 and the differences dictionary.
IterateRoundEnd ==
    /\ pcI = "round"
    /\ cur > Len_corpus
    /\ i' = next_round(i)
    /\ d' = differences(probabilities, updated_probabilities)
    /\ pcI' = "loop"
    /\ UNCHANGED <<corpus, corpus0, damping_factor, n, sampleVars, excI, fix,
                   links, probabilities, updated_probabilities, cur,
                   iterate_result>>

\* return probabilities
IterateReturn ==
    /\ pcI = "loop"
    /\ ~exceeds_tolerance(d)
    /\ iterate_result' = probabilities
    /\ pcI' = "done"
    /\ UNCHANGED <<corpus, corpus0, damping_factor, n, sampleVars, excI, fix,
                   links, probabilities, updated_probabilities, d, i, cur>>

NextIterate ==
    \/ IterateFix
    \/ IterateSetup
    \/ IterateSetupEmpty
    \/ IterateWhile
    \/ IteratePage
    \/ IterateRoundEnd
    \/ IterateReturn

----------------------------------------------------------------------------
\* The specifications.

InitWith(ds, ns) ==
    /\ \E N \in 0..MaxPages : corpus \in Graphs(N)
    /\ corpus0 = corpus
    /\ damping_factor \in ds
    /\ n \in ns
    /\ pcS = "start"
    /\ excS = "none"
    /\ page = 0
    /\ samples = <<>>
    /\ p = <<>>
    /\ sample_probabilities = <<>>
    /\ pcI = "fix"
    /\ excI = "none"
    /\ fix = 1
    /\ links = <<>>
    /\ probabilities = <<>>
    /\ updated_probabilities = <<>>
    /\ d = <<>>
    /\ i = 0
    /\ cur = 1
    /\ iterate_result = <<>>

\* sample_pagerank and iterate_pagerank called on one corpus, in any order
\* or interleaving.
Init == InitWith(IterateDampings, 1..MaxSamples)
Next == NextSample \/ NextIterate
Spec == Init /\ [][Next]_vars

\* sample_pagerank alone.
InitSample == InitWith(Dampings, 1..MaxSamples)
SpecSample == InitSample /\ [][NextSample]_vars

\* iterate_pagerank alone.
InitIterate == InitWith(IterateDampings, {1})
SpecIterate == InitIterate /\ [][NextIterate]_vars

\* iterate_pagerank alone and never suspended: every statement that can run
\* is run.
FairSpecIterate ==
    /\ SpecIterate
    /\ WF_vars(IterateFix)
    /\ WF_vars(IterateSetup)
    /\ WF_vars(IterateSetupEmpty)
    /\ WF_vars(IterateWhile)
    /\ WF_vars(IteratePage)
    /\ WF_vars(IterateRoundEnd)
    /\ WF_vars(IterateReturn)

----------------------------------------------------------------------------
\* The properties.

\* x = a / b
IsRatio(x, a, b) == x[1] * b = a * x[2]

One == <<1, 1>>

\* The sum of f over the set S.
RECURSIVE RSumSet(_, _)
RSumSet(f, S) ==
    IF S = {} THEN Zero
    ELSE LET q == CHOOSE q \in S : TRUE
         IN RAdd(f[q], RSumSet(f, S \ {q}))

\* x <= 1/m
WithinOneOver(x, m) == ~RLt(<<1, m>>, x)

\* sample_pagerank has called transition_model: p is what the call on
\* CalledPage returned.
Called == pcS \in {"loop", "done"} /\ Len(samples) >= 2
CalledPage == samples[Len(samples) - 1]

C2_TransitionSumsToOne ==
    (Called /\ corpus \in Graphs(Len_corpus)) =>
        /\ \A q \in DOMAIN p : p[q][1] >= 0 /\ p[q][2] > 0
        /\ WithinOneOver(RAbsDiff(RSumSet(p, DOMAIN p), One), 1000000000)

\* A call on a page without links in a graph of three pages, one of which
\* has two links.
C2_Witness ==
    /\ Called
    /\ Len_corpus = 3
    /\ corpus[CalledPage] = {}
    /\ \E q \in DOMAIN corpus : Cardinality(corpus[q]) = 2

\* C3: on a non-empty graph, sample_pagerank records exactly n pages and
\* returns for every page its number of visits over n; the values sum to
\* exactly 1, and with n = 1 one page has 1 and every other page 0.
C3_SampleFrequencies ==
    (pcS = "done" /\ Len_corpus > 0) =>
        /\ Len(samples) = n
        /\ DOMAIN sample_probabilities = DOMAIN corpus
        /\ \A q \in DOMAIN corpus :
              IsRatio(sample_probabilities[q],
                      Cardinality({j \in 1..Len(samples) : samples[j] = q}), n)
        /\ RSumSet(sample_probabilities, DOMAIN corpus) = One
        /\ n = 1 =>
              \E q \in DOMAIN corpus :
                 /\ sample_probabilities[q] = One
                 /\ \A r \in DOMAIN corpus \ {q} : sample_probabilities[r] = Zero

\* Two samples, of two distinct pages, of a graph of three pages.
C3_Witness ==
    /\ pcS = "done"
    /\ n = 2
    /\ Len_corpus = 3
    /\ Cardinality({samples[j] : j \in 1..Len(samples)}) = 2

\* A rank vector: an entry for every page, each non-negative, summing to 1
\* within 1e-6.
IsRankVector(v) ==
    /\ DOMAIN v = DOMAIN corpus
    /\ \A q \in DOMAIN v : v[q][1] >= 0 /\ v[q][2] > 0
    /\ WithinOneOver(RAbsDiff(RSumSet(v, DOMAIN v), One), 1000000)

\* C4: on a non-empty graph every vector the loop of iterate_pagerank
\* computes, and the vector returned, has an entry for every page, each
\* non-negative, and sums to 1 (within 1e-6).
C4_RankVectors ==
    /\ pcI \in {"loop", "done"} =>
          /\ IsRankVector(probabilities)
          /\ i >= 1 => IsRankVector(updated_probabilities)
    /\ pcI = "done" => IsRankVector(iterate_result)

\* A return after three rounds or more on a graph of three pages, one of
\* them without links.
C4_Witness ==
    /\ pcI = "done"
    /\ i >= 3
    /\ Len_corpus = 3
    /\ \E q \in DOMAIN corpus0 : corpus0[q] = {}
    /\ \E q \in DOMAIN corpus0 : corpus0[q] # {}

\* C5: iterate_pagerank returns the most recently computed vector, whatever
\* the number of rounds: round i writes updated_probabilities when i is even
\* and probabilities when i is odd.
C5_ReturnsLatest ==
    pcI = "done" =>
        /\ ~exceeds_tolerance(d)
        /\ iterate_result = IF i % 2 = 1 THEN updated_probabilities
                                         ELSE probabilities

\* C6: after iterate_pagerank returns, every page of the corpus has the
\* links it had before the call.
C6_CorpusUnchanged == pcI = "done" => corpus = corpus0

\* C7: whatever iterate_pagerank has done so far, the distribution
\* transition_model returns to sample_pagerank is the one it returns on the
\* graph as crawl() built it, and it sums to 1.
C7_SameDistributions ==
    Called =>
        /\ p = transition_model(corpus0, CalledPage, damping_factor)
        /\ RSumSet(p, DOMAIN p) = One

\* C8: on an empty graph both estimators end in an EmptyCorpus error.
C8_EmptyCorpusReported ==
    /\ pcS = "raised" => excS = "EmptyCorpus"
    /\ pcI = "raised" => excI = "EmptyCorpus"

\* C9: on a non-empty graph the loop of iterate_pagerank reaches a round
\* after which no page changed by more than 0.001, and the function returns.
C9_Terminates ==
    (Len_corpus > 0) ~> (pcI = "done" /\ ~exceeds_tolerance(d))

\* A return after four rounds on a graph of three pages with a page that no
\* page links to and that links to no page (a component of its own).
C9_Witness ==
    /\ pcI = "done"
    /\ i = 4
    /\ Len_corpus = 3
    /\ \E q \in DOMAIN corpus0 :
          /\ corpus0[q] = {}
          /\ \A r \in DOMAIN corpus0 : q \notin corpus0[r]
    /\ \E q \in DOMAIN corpus0 : corpus0[q] # {}

\* (1-d)/N + d * the sum over the pages l linking to q of old[l] / |links of l|
Jacobi(old, c, df) ==
    [q \in DOMAIN c |->
        LET inlinks == {l \in DOMAIN c : q \in c[l]}
            share == [l \in inlinks |-> RDivInt(old[l], Cardinality(c[l]))]
        IN RAdd(RDivInt(ROneMinus(df), Cardinality(DOMAIN c)),
                RMul(df, RSumSet(share, inlinks)))]

\* C10: every round is a synchronous update: no step of a round changes the
\* vector of the round before, and the vector the round has written when it
\* ends is the update equation applied to that vector, in even and in odd
\* rounds.
C10_SynchronousRounds ==
    [][pcI = "round" =>
          IF i % 2 = 0
          THEN /\ probabilities' = probabilities
               /\ i' # i =>
                     updated_probabilities =
                        Jacobi(probabilities, corpus, damping_factor)
          ELSE /\ updated_probabilities' = updated_probabilities
               /\ i' # i =>
                     probabilities =
                        Jacobi(updated_probabilities, corpus, damping_factor)]_vars

\* An even and an odd round done on a graph of three pages, the two vectors
\* still different.
C10_Witness ==
    /\ pcI = "loop"
    /\ i >= 2
    /\ Len_corpus = 3
    /\ probabilities # updated_probabilities
    /\ \E q \in DOMAIN probabilities : probabilities[q] # Rat(1, 3)

====
